---- MODULE Spec2Model ----
(***************************************************************************)
(* Model of the Gemini bridge of uunatek_tool                              *)
(* (frontend/src-tauri/src/gemini.rs, registered in lib.rs):               *)
(*   - get_api_key / gemini_check_status: the two-tier credential lookup;  *)
(*   - gemini_generate / gemini_edit / gemini_process_image: the facade;   *)
(*   - call_python_backend: serialise, resolve the backend directory,      *)
(*     run python3, interpret exit status, stdout and stderr.              *)
(*                                                                         *)
(* A Rust String is a sequence of Unicode scalar values (naturals); the    *)
(* bytes a child process writes are a sequence of naturals in 0..255.      *)
(***************************************************************************)
EXTENDS Integers, Sequences, FiniteSets, TLC

VARIABLES
    BUNDLED_KEY,   \* option_env!("GEMINI_API_KEY"): fixed when the binary is built
    envVar,        \* what std::env::var("GEMINI_API_KEY") returns right now
    cwd,           \* what std::env::current_dir() returns right now
    statusLog,     \* the last gemini_check_status results, newest last, each
                   \* with the environment value it was computed from
    calls          \* the facade calls: one record per caller-side slot

vars == <<BUNDLED_KEY, envVar, cwd, statusLog, calls>>

----------------------------------------------------------------------------
(* Bounds of the model. *)

MaxCalls == 2      \* facade calls in flight together (SpecConc)
MaxLog == 2        \* status results remembered

----------------------------------------------------------------------------
(* Strings. *)

\* The printable ASCII characters in code order: U+0020 .. U+005F and
\* U+0061 .. U+007E (a TLA+ string cannot hold U+0060, the backtick).
AsciiLow ==
    " !\"#$%&'()*+,-./0123456789:;<=>?@ABCDEFGHIJKLMNOPQRSTUVWXYZ[\\]^_"
AsciiHigh == "abcdefghijklmnopqrstuvwxyz{|}~"
BACKTICK == 96

\* The scalar value of each printable ASCII character.
CodeOf ==
    [c \in {SubSeq(AsciiLow, i, i) : i \in 1..Len(AsciiLow)}
            \cup {SubSeq(AsciiHigh, i, i) : i \in 1..Len(AsciiHigh)} |->
        IF \E i \in 1..Len(AsciiLow) : SubSeq(AsciiLow, i, i) = c
        THEN 31 + (CHOOSE i \in 1..Len(AsciiLow) : SubSeq(AsciiLow, i, i) = c)
        ELSE 96 + (CHOOSE i \in 1..Len(AsciiHigh) : SubSeq(AsciiHigh, i, i) = c)]
Ord(c) == CodeOf[c]

\* A string literal of the source as a String value.
Lit(s) == [i \in 1..Len(s) |-> Ord(SubSeq(s, i, i))]

LF == 10           \* '\n'
HT == 9            \* '\t'
CR == 13           \* '\r'
BS == 8            \* '\b'
FF == 12           \* '\f'
REPLACEMENT == 65533   \* U+FFFD REPLACEMENT CHARACTER
QUOTE == Ord("\"")
BACKSLASH == Ord("\\")

\* Concatenation of a sequence of strings
RECURSIVE Cat(_)
Cat(ss) == IF ss = <<>> THEN <<>> ELSE Head(ss) \o Cat(Tail(ss))

\* Display of an unsigned integer (decimal, no leading zeros)
RECURSIVE Dec(_)
Dec(n) ==
    IF n < 10 THEN <<Ord("0") + n>>
    ELSE Append(Dec(n \div 10), Ord("0") + (n % 10))

\* str::contains, starts_with, ends_with
Contains(s, t) ==
    \E i \in 1..(Len(s) - Len(t) + 1) : SubSeq(s, i, i + Len(t) - 1) = t
StartsWith(s, t) == Len(t) <= Len(s) /\ SubSeq(s, 1, Len(t)) = t
EndsWith(s, t) == Len(t) <= Len(s) /\ SubSeq(s, Len(s) - Len(t) + 1, Len(s)) = t

\* Option<T> and Result<T, E>
None == [tag |-> "None"]
Some(v) == [tag |-> "Some", val |-> v]
Ok(v) == [tag |-> "Ok", val |-> v]
Err(e) == [tag |-> "Err", err |-> e]

----------------------------------------------------------------------------
(* Credential resolver. *)

PLACEHOLDER == Lit("your_api_key_here")

\* std::env::var(..).ok(): NotPresent and NotUnicode both become None
EnvOk(r) == IF r.tag = "Ok" THEN Some(r.val) ELSE None

\* a variant that accepts the placeholder
KeyUsable_placeholder(k) == k # <<>>

\* the closure of .filter(..) and the test on the bundled key
KeyUsable(k) == k # <<>> /\ k # PLACEHOLDER

\* a variant that reads the runtime environment first
get_api_key_env_first ==
    IF EnvOk(envVar).tag = "Some" /\ KeyUsable(EnvOk(envVar).val)
    THEN EnvOk(envVar)
    ELSE IF BUNDLED_KEY.tag = "Some" /\ KeyUsable(BUNDLED_KEY.val)
         THEN Some(BUNDLED_KEY.val)
         ELSE None

\* a variant that keeps the first answer it gave
get_api_key_cached ==
    IF statusLog # <<>>
    THEN statusLog[Len(statusLog)].key
    ELSE IF BUNDLED_KEY.tag = "Some" /\ KeyUsable(BUNDLED_KEY.val)
         THEN Some(BUNDLED_KEY.val)
         ELSE IF EnvOk(envVar).tag = "Some" /\ KeyUsable(EnvOk(envVar).val)
              THEN EnvOk(envVar)
              ELSE None

get_api_key ==
    IF BUNDLED_KEY.tag = "Some" /\ KeyUsable(BUNDLED_KEY.val)
    THEN Some(BUNDLED_KEY.val)
    ELSE IF EnvOk(envVar).tag = "Some" /\ KeyUsable(EnvOk(envVar).val)
         THEN EnvOk(envVar)
         ELSE None

MSG_CONFIGURED == Lit("Gemini API is configured")
MSG_NOT_CONFIGURED ==
    Lit("Gemini API key not configured. Configure in the app settings.")

\* a variant that reports a missing key as an error
StatusResponse_err ==
    IF get_api_key.tag = "Some"
    THEN Ok([configured |-> TRUE, message |-> MSG_CONFIGURED])
    ELSE Err(MSG_NOT_CONFIGURED)

\* the value gemini_check_status returns
StatusResponse ==
    IF get_api_key.tag = "Some"
    THEN Ok([configured |-> TRUE, message |-> MSG_CONFIGURED])
    ELSE Ok([configured |-> FALSE, message |-> MSG_NOT_CONFIGURED])

\* the newest MaxLog entries of a log
Latest(log) ==
    IF Len(log) <= MaxLog THEN log ELSE SubSeq(log, Len(log) - MaxLog + 1, Len(log))

gemini_check_status ==
    /\ statusLog' = Latest(Append(statusLog,
                       [res |-> StatusResponse, key |-> get_api_key, env |-> envVar]))
    /\ UNCHANGED <<BUNDLED_KEY, envVar, cwd, calls>>

\* The values the two credential tiers take in the model.
BundledValues == {None, Some(<<>>), Some(PLACEHOLDER), Some(Lit("key-B"))}
EnvValues ==
    {Err("NotPresent"), Err("NotUnicode"), Ok(<<>>), Ok(PLACEHOLDER), Ok(Lit("key-A"))}

\* The runtime environment variable is set, changed or removed.
SetEnv ==
    /\ \E v \in EnvValues : v # envVar /\ envVar' = v
    /\ UNCHANGED <<BUNDLED_KEY, cwd, statusLog, calls>>

----------------------------------------------------------------------------
(* String::from_utf8_lossy: each maximal ill-formed byte sequence becomes   *)
(* one U+FFFD; well-formed sequences become the scalar value they encode.   *)

IsCont(b, lo, hi) == b >= lo /\ b <= hi

\* the range of the second byte after lead byte b0 (Unicode table 3-7)
SecondLo(b0) == IF b0 = 224 THEN 160 ELSE IF b0 = 240 THEN 144 ELSE 128
SecondHi(b0) == IF b0 = 237 THEN 159 ELSE IF b0 = 244 THEN 143 ELSE 191

\* the length a lead byte announces; 0 for a byte that cannot lead
Utf8Width(b0) ==
    IF b0 < 128 THEN 1
    ELSE IF b0 >= 194 /\ b0 <= 223 THEN 2
    ELSE IF b0 >= 224 /\ b0 <= 239 THEN 3
    ELSE IF b0 >= 240 /\ b0 <= 244 THEN 4
    ELSE 0

RECURSIVE from_utf8_lossy_at(_, _)
from_utf8_lossy_at(b, i) ==
    IF i > Len(b) THEN <<>>
    ELSE LET b0 == b[i]
             w == Utf8Width(b0)
             has(k) == i + k <= Len(b)
             ok2 == has(1) /\ IsCont(b[i + 1], SecondLo(b0), SecondHi(b0))
             ok3 == ok2 /\ has(2) /\ IsCont(b[i + 2], 128, 191)
             ok4 == ok3 /\ has(3) /\ IsCont(b[i + 3], 128, 191)
         IN CASE w = 1 -> <<b0>> \o from_utf8_lossy_at(b, i + 1)
              [] w = 0 -> <<REPLACEMENT>> \o from_utf8_lossy_at(b, i + 1)
              [] w = 2 /\ ok2 ->
                    <<(b0 - 192) * 64 + (b[i + 1] - 128)>>
                        \o from_utf8_lossy_at(b, i + 2)
              [] w = 3 /\ ok3 ->
                    <<(b0 - 224) * 4096 + (b[i + 1] - 128) * 64 + (b[i + 2] - 128)>>
                        \o from_utf8_lossy_at(b, i + 3)
              [] w = 4 /\ ok4 ->
                    <<(b0 - 240) * 262144 + (b[i + 1] - 128) * 4096
                        + (b[i + 2] - 128) * 64 + (b[i + 3] - 128)>>
                        \o from_utf8_lossy_at(b, i + 4)
              \* ill-formed: the bytes that were acceptable so far are one U+FFFD
              [] w = 4 /\ ok3 -> <<REPLACEMENT>> \o from_utf8_lossy_at(b, i + 3)
              [] w >= 3 /\ ok2 /\ ~ok3 -> <<REPLACEMENT>> \o from_utf8_lossy_at(b, i + 2)
              [] OTHER -> <<REPLACEMENT>> \o from_utf8_lossy_at(b, i + 1)

from_utf8_lossy(b) == from_utf8_lossy_at(b, 1)

\* the UTF-8 encoding of one scalar value, and of a String (str::as_bytes)
Utf8Char(c) ==
    IF c < 128 THEN <<c>>
    ELSE IF c < 2048 THEN <<192 + (c \div 64), 128 + (c % 64)>>
    ELSE IF c < 65536
         THEN <<224 + (c \div 4096), 128 + ((c \div 64) % 64), 128 + (c % 64)>>
         ELSE <<240 + (c \div 262144), 128 + ((c \div 4096) % 64),
                128 + ((c \div 64) % 64), 128 + (c % 64)>>

RECURSIVE as_bytes(_)
as_bytes(s) == IF s = <<>> THEN <<>> ELSE Utf8Char(Head(s)) \o as_bytes(Tail(s))

----------------------------------------------------------------------------
(* serde_json::from_str::<GeminiGenerateResponse>, as the derived          *)
(* Deserialize of the struct drives serde_json's Deserializer over the     *)
(* bytes s of the text.  A position n is the number of bytes read so far;  *)
(* the next one is s[n + 1].                                               *)
(* The model covers objects, strings with the one-character escapes,       *)
(* null/true/false and unsigned integers; anything else a document could   *)
(* hold (arrays, nested objects, \u escapes, signs, fractions, exponents)  *)
(* is reported as "Unsupported" and is never fed to the model.             *)

Done(val, n) == [tag |-> "Ok", val |-> val, n |-> n]
\* Error::syntax(code, line, column): the position is known
Fail(msg, at, n) == [tag |-> "Err", msg |-> msg, at |-> at, n |-> n]
\* de::Error::custom(msg): line 0, fixed later by fix_position
Custom(msg, n) == [tag |-> "Err", msg |-> msg, at |-> -1, n |-> n]
Unsupported(n) == [tag |-> "Unsupported", n |-> n]

\* Deserializer::fix_position
fix_position(r, n) ==
    IF r.tag = "Err" /\ r.at = -1 THEN [r EXCEPT !.at = n] ELSE r

\* ErrorCode's Display
EOF_OBJECT == Lit("EOF while parsing an object")
EOF_STRING == Lit("EOF while parsing a string")
EOF_VALUE == Lit("EOF while parsing a value")
EXPECTED_COLON == Cat(<<Lit("expected "), <<BACKTICK>>, Lit(":"), <<BACKTICK>>>>)
EXPECTED_OBJECT_COMMA_OR_END ==
    Cat(<<Lit("expected "), <<BACKTICK>>, Lit(","), <<BACKTICK>>, Lit(" or "),
          <<BACKTICK>>, Lit("}"), <<BACKTICK>>>>)
EXPECTED_SOME_IDENT == Lit("expected ident")
EXPECTED_SOME_VALUE == Lit("expected value")
INVALID_ESCAPE == Lit("invalid escape")
INVALID_NUMBER == Lit("invalid number")
KEY_MUST_BE_A_STRING == Lit("key must be a string")
CONTROL_CHARACTER ==
    Lit("control character (\\u0000-\\u001F) found while parsing a string")
TRAILING_COMMA == Lit("trailing comma")
TRAILING_CHARACTERS == Lit("trailing characters")

\* de::Error::missing_field, duplicate_field, invalid_type
missing_field(f) == Cat(<<Lit("missing field "), <<BACKTICK>>, f, <<BACKTICK>>>>)
duplicate_field(f) == Cat(<<Lit("duplicate field "), <<BACKTICK>>, f, <<BACKTICK>>>>)
invalid_type(unexp, exp) ==
    Cat(<<Lit("invalid type: "), unexp, Lit(", expected "), exp>>)

\* <str as Debug>::fmt for the characters of the model
RECURSIVE DebugChars(_)
DebugChars(s) ==
    IF s = <<>> THEN <<>>
    ELSE LET c == Head(s)
         IN (CASE c = QUOTE -> <<BACKSLASH, QUOTE>>
               [] c = BACKSLASH -> <<BACKSLASH, BACKSLASH>>
               [] c = LF -> <<BACKSLASH, Ord("n")>>
               [] c = CR -> <<BACKSLASH, Ord("r")>>
               [] c = HT -> <<BACKSLASH, Ord("t")>>
               [] OTHER -> <<c>>) \o DebugChars(Tail(s))
DebugStr(s) == <<QUOTE>> \o DebugChars(s) \o <<QUOTE>>

\* the str of bytes read out of a str: they are well-formed
as_str(b) == from_utf8_lossy(b)

IsWs(c) == c \in {Ord(" "), LF, HT, CR}
IsDigit(c) == c >= Ord("0") /\ c <= Ord("9")

\* the next character without reading it; -1 at the end of input
Peek(s, n) == IF n < Len(s) THEN s[n + 1] ELSE -1

\* Read::peek_position: the position after the character peeked at
peek_position(s, n) == IF n + 1 <= Len(s) THEN n + 1 ELSE Len(s)
peek_error(s, msg, n) == Fail(msg, peek_position(s, n), n)

RECURSIVE parse_whitespace(_, _)
parse_whitespace(s, n) ==
    IF n < Len(s) /\ IsWs(s[n + 1]) THEN parse_whitespace(s, n + 1) ELSE n

\* the character a one-character escape stands for; -1 for none
Escaped(e) ==
    CASE e = QUOTE -> QUOTE
      [] e = BACKSLASH -> BACKSLASH
      [] e = Ord("/") -> Ord("/")
      [] e = Ord("b") -> BS
      [] e = Ord("f") -> FF
      [] e = Ord("n") -> LF
      [] e = Ord("r") -> CR
      [] e = Ord("t") -> HT
      [] OTHER -> -1

\* Read::parse_str, after the opening quote
RECURSIVE parse_str(_, _, _)
parse_str(s, n, acc) ==
    IF n >= Len(s) THEN Fail(EOF_STRING, n, n)
    ELSE LET c == s[n + 1]
         IN IF c = QUOTE THEN Done(acc, n + 1)
            ELSE IF c = BACKSLASH
            THEN IF n + 1 >= Len(s) THEN Fail(EOF_STRING, n + 1, n + 1)
                 ELSE IF s[n + 2] = Ord("u") THEN Unsupported(n + 2)
                 ELSE IF Escaped(s[n + 2]) = -1
                      THEN Fail(INVALID_ESCAPE, n + 2, n + 2)
                      ELSE parse_str(s, n + 2, Append(acc, Escaped(s[n + 2])))
            ELSE IF c < 32 THEN Fail(CONTROL_CHARACTER, n + 1, n + 1)
            ELSE parse_str(s, n + 1, Append(acc, c))

\* Deserializer::parse_ident, after the first letter
RECURSIVE parse_ident(_, _, _)
parse_ident(s, n, rest) ==
    IF rest = <<>> THEN Done(TRUE, n)
    ELSE IF n >= Len(s) THEN Fail(EOF_VALUE, n, n)
    ELSE IF s[n + 1] # Head(rest) THEN Fail(EXPECTED_SOME_IDENT, n + 1, n + 1)
    ELSE parse_ident(s, n + 1, Tail(rest))

RECURSIVE parse_digits(_, _, _)
parse_digits(s, n, acc) ==
    IF n < Len(s) /\ IsDigit(s[n + 1])
    THEN parse_digits(s, n + 1, acc * 10 + (s[n + 1] - Ord("0")))
    ELSE Done(acc, n)

\* Deserializer::parse_integer(true) / ignore_integer, with a digit next
parse_integer(s, n) ==
    LET r == IF s[n + 1] = Ord("0")
             THEN IF IsDigit(Peek(s, n + 1))
                  THEN peek_error(s, INVALID_NUMBER, n + 1)
                  ELSE Done(0, n + 1)
             ELSE parse_digits(s, n, 0)
    IN IF r.tag = "Ok" /\ Peek(s, r.n) \in {Ord("."), Ord("e"), Ord("E")}
       THEN Unsupported(r.n)
       ELSE r

\* de::Error::invalid_type for the value just read, unless reading it failed
invalid_literal(r, unexp, exp) ==
    IF r.tag = "Ok" THEN Custom(invalid_type(unexp, exp), r.n) ELSE r
invalid_integer(r, exp) ==
    IF r.tag = "Ok"
    THEN Custom(invalid_type(Cat(<<Lit("integer "), <<BACKTICK>>, Dec(r.val),
                                   <<BACKTICK>>>>), exp), r.n)
    ELSE r
invalid_string(r, exp) ==
    IF r.tag = "Ok"
    THEN Custom(invalid_type(Lit("string ") \o DebugStr(as_str(r.val)), exp), r.n)
    ELSE r

\* fix_position at the place the reader has reached
fix_position_here(r) == fix_position(r, r.n)

\* Deserializer::peek_invalid_type: the value found is not what exp expects
peek_invalid_type(s, n, c, exp) ==
    fix_position_here(
        CASE c = Ord("n") ->
                invalid_literal(parse_ident(s, n + 1, Lit("ull")), Lit("null"), exp)
          [] c = Ord("t") ->
                invalid_literal(parse_ident(s, n + 1, Lit("rue")),
                    Cat(<<Lit("boolean "), <<BACKTICK>>, Lit("true"), <<BACKTICK>>>>),
                    exp)
          [] c = Ord("f") ->
                invalid_literal(parse_ident(s, n + 1, Lit("alse")),
                    Cat(<<Lit("boolean "), <<BACKTICK>>, Lit("false"), <<BACKTICK>>>>),
                    exp)
          [] c = Ord("-") -> Unsupported(n)
          [] IsDigit(c) -> invalid_integer(parse_integer(s, n), exp)
          [] c = QUOTE -> invalid_string(parse_str(s, n + 1, <<>>), exp)
          [] c = Ord("[") -> Custom(invalid_type(Lit("sequence"), exp), n)
          [] c = Ord("{") -> Custom(invalid_type(Lit("map"), exp), n)
          [] OTHER -> peek_error(s, EXPECTED_SOME_VALUE, n))

\* <&mut Deserializer>::deserialize_string with String's visitor, the
\* whitespace before the value read: n bytes are read and c is next
deserialize_string(s, n, c) ==
    IF c = -1 THEN peek_error(s, EOF_VALUE, n)
    ELSE IF c = QUOTE THEN parse_str(s, n + 1, <<>>)
    ELSE peek_invalid_type(s, n, c, Lit("a string"))

\* Deserializer::ignore_value (the value of a field the struct does not
\* have), the whitespace before the value read
ignore_value(s, n, c) ==
    CASE c = -1 -> peek_error(s, EOF_VALUE, n)
      [] c = Ord("n") -> parse_ident(s, n + 1, Lit("ull"))
      [] c = Ord("t") -> parse_ident(s, n + 1, Lit("rue"))
      [] c = Ord("f") -> parse_ident(s, n + 1, Lit("alse"))
      [] IsDigit(c) -> parse_integer(s, n)
      [] c = QUOTE -> parse_str(s, n + 1, <<>>)
      [] c \in {Ord("-"), Ord("["), Ord("{")} -> Unsupported(n)
      [] OTHER -> peek_error(s, EXPECTED_SOME_VALUE, n)

\* Deserializer::parse_object_colon, the whitespace before it read
parse_object_colon(s, n, c) ==
    IF c = -1 THEN peek_error(s, EOF_OBJECT, n)
    ELSE IF c = Ord(":") THEN Done(TRUE, n + 1)
    ELSE peek_error(s, EXPECTED_COLON, n)

FIELD_IMAGE_BASE64 == Lit("image_base64")
FIELD_PROMPT_USED == Lit("prompt_used")
EXPECTING_STRUCT == Lit("struct GeminiGenerateResponse")

\* The derived Visitor::visit_map over serde_json's MapAccess: f0 and f1 are
\* the Option<String> locals of the two fields, first is MapAccess.first.
RECURSIVE visit_map(_, _, _, _, _)

\* the value v of the field named key is read: store it, take the next key
visit_value(s, key, f0, f1, v) ==
    IF v.tag # "Ok" THEN v
    ELSE visit_map(s, v.n, FALSE,
                   IF key = FIELD_IMAGE_BASE64 THEN Some(as_str(v.val)) ELSE f0,
                   IF key = FIELD_PROMPT_USED THEN Some(as_str(v.val)) ELSE f1)

\* MapAccess::next_value_seed: after the colon, at byte n, the value
next_value(s, n, key, f0, f1) ==
    visit_value(s, key, f0, f1,
        IF key \in {FIELD_IMAGE_BASE64, FIELD_PROMPT_USED}
        THEN deserialize_string(s, n, Peek(s, n))
        ELSE ignore_value(s, n, Peek(s, n)))

\* the match arm of the key read: n bytes are read, colon is what
\* parse_object_colon makes of the rest
visit_field(s, n, key, f0, f1, colon) ==
    IF key = FIELD_IMAGE_BASE64 /\ f0.tag = "Some"
    THEN Custom(duplicate_field(FIELD_IMAGE_BASE64), n)
    ELSE IF key = FIELD_PROMPT_USED /\ f1.tag = "Some"
    THEN Custom(duplicate_field(FIELD_PROMPT_USED), n)
    ELSE IF colon.tag # "Ok" THEN colon
    ELSE next_value(s, parse_whitespace(s, colon.n), key, f0, f1)

\* the key is read (or reading it failed)
visit_key_read(s, key, f0, f1) ==
    IF key.tag # "Ok" THEN key
    ELSE visit_field(s, key.n, key.val, f0, f1,
                     parse_object_colon(s, parse_whitespace(s, key.n),
                                        Peek(s, parse_whitespace(s, key.n))))

\* MapAccess::next_key_seed once the separator is dealt with: a key is next
visit_key(s, n, c, f0, f1) ==
    IF c = QUOTE THEN visit_key_read(s, parse_str(s, n + 1, <<>>), f0, f1)
    ELSE IF c = Ord("}") THEN peek_error(s, TRAILING_COMMA, n)
    ELSE IF c = -1 THEN peek_error(s, EOF_VALUE, n)
    ELSE peek_error(s, KEY_MUST_BE_A_STRING, n)

\* MapAccess::next_key_seed with the whitespace read: n bytes are read, c is next
next_key(s, n, c, first, f0, f1) ==
    IF c = -1 THEN peek_error(s, EOF_OBJECT, n)
    ELSE IF c = Ord("}")
    THEN \* next_key is None: the struct is built from the fields seen
         IF f0.tag = "None" THEN Custom(missing_field(FIELD_IMAGE_BASE64), n)
         ELSE IF f1.tag = "None" THEN Custom(missing_field(FIELD_PROMPT_USED), n)
         ELSE Done([image_base64 |-> f0.val, prompt_used |-> f1.val], n)
    ELSE IF first \/ c = Ord(",")
    THEN \* the first key follows the brace, a later one follows a comma
         visit_key(s,
                   IF first THEN n ELSE parse_whitespace(s, n + 1),
                   IF first THEN c ELSE Peek(s, parse_whitespace(s, n + 1)),
                   f0, f1)
    ELSE peek_error(s, EXPECTED_OBJECT_COMMA_OR_END, n)

visit_map(s, n, first, f0, f1) ==
    next_key(s, parse_whitespace(s, n), Peek(s, parse_whitespace(s, n)), first, f0, f1)

\* Deserializer::end_map, the whitespace before it read
end_map(s, n, c) ==
    IF c = Ord("}") THEN Done(TRUE, n + 1)
    ELSE IF c = Ord(",") THEN peek_error(s, TRAILING_COMMA, n)
    ELSE IF c = -1 THEN peek_error(s, EOF_OBJECT, n)
    ELSE peek_error(s, TRAILING_CHARACTERS, n)

\* match (ret, self.end_map()), then fix_position
map_result(ret, end) ==
    IF ret.tag = "Unsupported" THEN ret
    ELSE IF ret.tag = "Ok" /\ end.tag = "Ok" THEN Done(ret.val, end.n)
    ELSE IF ret.tag = "Err" THEN fix_position(ret, end.n)
    ELSE fix_position(end, end.n)

\* end_map runs whatever visit_map returned
map_end(s, ret) ==
    map_result(ret, end_map(s, parse_whitespace(s, ret.n),
                            Peek(s, parse_whitespace(s, ret.n))))

\* <&mut Deserializer>::deserialize_struct with the derived visitor, the
\* whitespace before the value read
deserialize_struct(s, n, c) ==
    IF c = -1 THEN peek_error(s, EOF_VALUE, n)
    ELSE IF c = Ord("[") THEN Unsupported(n)
    ELSE IF c = Ord("{") THEN map_end(s, visit_map(s, n + 1, TRUE, None, None))
    ELSE peek_invalid_type(s, n, c, EXPECTING_STRUCT)

\* SliceRead::position_of_index: line and column after the first n bytes
RECURSIVE position_of_index(_, _, _, _)
position_of_index(s, n, line, column) ==
    IF n = 0 \/ s = <<>> THEN [line |-> line, column |-> column]
    ELSE IF Head(s) = LF THEN position_of_index(Tail(s), n - 1, line + 1, 0)
    ELSE position_of_index(Tail(s), n - 1, line, column + 1)

\* serde_json::Error's Display
ErrorDisplay(s, msg, pos) ==
    Cat(<<msg, Lit(" at line "), Dec(pos.line), Lit(" column "), Dec(pos.column)>>)

\* Deserializer::end after the value r: only whitespace may follow
deserializer_end(s, r, n) ==
    IF r.tag # "Ok" THEN r
    ELSE IF n < Len(s) THEN peek_error(s, TRAILING_CHARACTERS, n)
    ELSE r

\* the Result from_str returns for what the deserializer made of s
from_trait(s, r) ==
    IF r.tag = "Unsupported" THEN r
    ELSE IF r.tag = "Err"
    THEN Err(ErrorDisplay(s, r.msg, position_of_index(s, r.at, 1, 0)))
    ELSE Ok(r.val)

\* the value deserialized from the bytes s, then Deserializer::end
from_slice(s, r) == from_trait(s, deserializer_end(s, r, parse_whitespace(s, r.n)))

\* serde_json::from_str::<GeminiGenerateResponse>
from_str(text) ==
    from_slice(as_bytes(text),
               deserialize_struct(as_bytes(text),
                                  parse_whitespace(as_bytes(text), 0),
                                  Peek(as_bytes(text), parse_whitespace(as_bytes(text), 0))))

----------------------------------------------------------------------------
(* serde_json::to_string of the three request structs: the fields in       *)
(* declaration order, an absent Option as null.                            *)

HexDigit(d) == IF d < 10 THEN Ord("0") + d ELSE Ord("a") + (d - 10)

\* serde_json's string escaping
RECURSIVE EscapeChars(_)
EscapeChars(s) ==
    IF s = <<>> THEN <<>>
    ELSE LET c == Head(s)
         IN (CASE c = QUOTE -> <<BACKSLASH, QUOTE>>
               [] c = BACKSLASH -> <<BACKSLASH, BACKSLASH>>
               [] c = BS -> <<BACKSLASH, Ord("b")>>
               [] c = FF -> <<BACKSLASH, Ord("f")>>
               [] c = LF -> <<BACKSLASH, Ord("n")>>
               [] c = CR -> <<BACKSLASH, Ord("r")>>
               [] c = HT -> <<BACKSLASH, Ord("t")>>
               [] c < 32 /\ c \notin {BS, FF, LF, CR, HT} ->
                    <<BACKSLASH, Ord("u"), Ord("0"), Ord("0"),
                      HexDigit(c \div 16), HexDigit(c % 16)>>
               [] OTHER -> <<c>>) \o EscapeChars(Tail(s))

JsonString(s) == <<QUOTE>> \o EscapeChars(s) \o <<QUOTE>>
JsonOptString(o) == IF o.tag = "Some" THEN JsonString(o.val) ELSE Lit("null")
JsonOptU32(o) == IF o.tag = "Some" THEN Dec(o.val) ELSE Lit("null")
JsonOptBool(o) ==
    IF o.tag = "Some" THEN (IF o.val THEN Lit("true") ELSE Lit("false")) ELSE Lit("null")

\* one "name":value member
Member(name, value) == Cat(<<JsonString(Lit(name)), Lit(":"), value>>)

\* the members of an object, comma separated
RECURSIVE Members(_)
Members(ms) ==
    IF Len(ms) = 1 THEN ms[1] ELSE Cat(<<ms[1], Lit(","), Members(Tail(ms))>>)
JsonObject(ms) == Cat(<<Lit("{"), Members(ms), Lit("}")>>)

\* serde_json::to_string(request): it cannot fail for these structs
to_string(request) ==
    CASE request.type = "GeminiGenerateRequest" ->
            Ok(JsonObject(<<Member("prompt", JsonString(request.prompt)),
                            Member("style", JsonOptString(request.style)),
                            Member("width", JsonOptU32(request.width)),
                            Member("height", JsonOptU32(request.height))>>))
      [] request.type = "GeminiEditRequest" ->
            Ok(JsonObject(<<Member("image_base64", JsonString(request.image_base64)),
                            Member("prompt", JsonString(request.prompt))>>))
      [] request.type = "GeminiProcessRequest" ->
            Ok(JsonObject(<<Member("image_base64", JsonString(request.image_base64)),
                            Member("style", JsonOptString(request.style)),
                            Member("custom_prompt", JsonOptString(request.custom_prompt)),
                            Member("remove_background",
                                   JsonOptBool(request.remove_background)),
                            Member("threshold", JsonOptU32(request.threshold)),
                            Member("padding", JsonOptU32(request.padding))>>))

----------------------------------------------------------------------------
(* The facade and call_python_backend. *)

Commands == {"gemini_generate", "gemini_edit", "gemini_process_image"}

\* a variant in which gemini_edit was copied from gemini_generate unchanged
OperationName_copied(cmd) ==
    IF cmd = "gemini_process_image" THEN Lit("process") ELSE Lit("generate")

\* the operation name each command hands to call_python_backend
OperationName(cmd) ==
    CASE cmd = "gemini_generate" -> Lit("generate")
      [] cmd = "gemini_edit" -> Lit("edit")
      [] cmd = "gemini_process_image" -> Lit("process")

\* the text each command's map_err puts before the error
ContextLabel(cmd) ==
    CASE cmd = "gemini_generate" -> Lit("Failed to generate image: ")
      [] cmd = "gemini_edit" -> Lit("Failed to edit image: ")
      [] cmd = "gemini_process_image" -> Lit("Failed to process image: ")

\* .map_err(|e| format!("Failed to ... image: {}", e))
map_err_label(cmd, r) ==
    IF r.tag = "Err" THEN Err(ContextLabel(cmd) \o r.err) ELSE r

\* Path::parent: None for the root, which has no components
Parent(path) ==
    IF path = <<>> THEN None ELSE Some(SubSeq(path, 1, Len(path) - 1))

SERIALIZE_ERROR == Lit("Failed to serialize request: ")
CURRENT_DIR_ERROR == Lit("Failed to get current directory: ")
PARENT_DIR_ERROR == Lit("Failed to get parent directory")
EXECUTE_ERROR == Lit("Failed to execute Python: ")
BACKEND_ERROR == Lit("Python backend error: ")
PARSE_ERROR == Lit("Failed to parse response: ")

\* a variant that tries once more when the launch failed
output_retry(launch) ==
    IF launch.err.tag = "Some"
    THEN [err |-> launch.err, children |-> launch.children + 1]
    ELSE [err |-> launch.err, children |-> launch.children]

\* Command::output up to the child running: what the operating system did
\* with the one launch this call asks for
output(launch) == [err |-> launch.err, children |-> launch.children]

\* an early return of call_python_backend: the stage reached, the error
\* text, the child processes that existed
Early(stage, text, n) ==
    [tag |-> "Err", err |-> text, stage |-> stage, children |-> n]

\* Command::new("python3").current_dir(..).arg(..)...output(): run is what
\* the launch came to
command_output(operation, json_input, backend_path, run) ==
    IF run.err.tag = "Some"
    THEN Early("launch", EXECUTE_ERROR \o run.err.val, run.children)
    ELSE [tag |-> "Spawned",
          children |-> run.children,
          child |-> [program |-> Lit("python3"),
                     current_dir |-> backend_path,
                     args |-> <<Lit("-m"), Lit("core.gemini.cli"),
                                operation, json_input>>]]

\* current_dir()?.parent().ok_or(..)?.join("backend"), then the launch
resolve_and_run(operation, json_input, dir, launch) ==
    IF dir.tag = "Err" THEN Early("cwd", CURRENT_DIR_ERROR \o dir.err, 0)
    ELSE IF Parent(dir.val).tag = "None" THEN Early("parent", PARENT_DIR_ERROR, 0)
    ELSE command_output(operation, json_input,
                        Append(Parent(dir.val).val, Lit("backend")), output(launch))

\* after serde_json::to_string(request)
serialized(operation, json_input, dir, launch) ==
    IF json_input.tag = "Err"
    THEN Early("serialize", SERIALIZE_ERROR \o json_input.err, 0)
    ELSE resolve_and_run(operation, json_input.val, dir, launch)

\* call_python_backend from its entry to the point where it waits for the
\* child: an early return (tag "Err") or the child it waits for
call_python_backend_start(operation, request, dir, launch) ==
    serialized(operation, to_string(request), dir, launch)

\* ExitStatus::success: the child exited, and with code 0
success(status) == status.code = Some(0)

\* a variant without the "Python backend error: " prefix
WorkerError_bare(stderr) == from_utf8_lossy(stderr)

\* a variant that cuts the text at the first line break
RECURSIVE FirstLine(_)
FirstLine(s) ==
    IF s = <<>> \/ Head(s) = LF THEN <<>> ELSE <<Head(s)>> \o FirstLine(Tail(s))
WorkerError_first_line(stderr) == BACKEND_ERROR \o FirstLine(from_utf8_lossy(stderr))

\* format!("Python backend error: {}", String::from_utf8_lossy(&output.stderr))
WorkerError(stderr) == BACKEND_ERROR \o from_utf8_lossy(stderr)

\* a variant that attaches the raw output to a parse error
parse_outcome_raw(stdout, parsed) ==
    IF parsed.tag = "Err"
    THEN [res |-> Err(Cat(<<PARSE_ERROR, parsed.err, Lit(": "), stdout>>)),
          stage |-> "parse", parsed |-> TRUE]
    ELSE [res |-> Ok(parsed.val), stage |-> "ok", parsed |-> TRUE]

\* serde_json::from_str(&stdout).map_err(|e| format!("Failed to parse
\* response: {}", e)): parsed is what from_str made of stdout
parse_outcome(stdout, parsed) ==
    IF parsed.tag = "Err"
    THEN [res |-> Err(PARSE_ERROR \o parsed.err), stage |-> "parse", parsed |-> TRUE]
    ELSE [res |-> Ok(parsed.val), stage |-> "ok", parsed |-> TRUE]

\* let stdout = String::from_utf8_lossy(&output.stdout); then the parse
parse_response(stdout) == parse_outcome(stdout, from_str(stdout))

\* call_python_backend once the child has exited: out is the Output
\* (status, stdout, stderr); parsed tells whether serde_json::from_str ran
call_python_backend_finish(out) ==
    IF ~success(out.status)
    THEN [res |-> Err(WorkerError(out.stderr)), stage |-> "worker", parsed |-> FALSE]
    ELSE parse_response(from_utf8_lossy(out.stdout))

\* A caller-side slot with no call in it.
IdleCall ==
    [pc |-> "idle", cmd |-> "", request |-> None, child |-> None, spawned |-> 0,
     output |-> None, result |-> None, stage |-> "", parsed |-> FALSE, returns |-> 0]

\* the slot of a call once call_python_backend returned early or waits
Started(cmd, request, started) ==
    IF started.tag = "Err"
    THEN [IdleCall EXCEPT !.pc = "returned",
                          !.cmd = cmd,
                          !.request = Some(request),
                          !.spawned = started.children,
                          !.result = Some(map_err_label(cmd, Err(started.err))),
                          !.stage = started.stage,
                          !.returns = 1]
    ELSE [IdleCall EXCEPT !.pc = "waiting",
                          !.cmd = cmd,
                          !.request = Some(request),
                          !.spawned = started.children,
                          !.child = Some(started.child)]

\* A command is invoked in slot c and runs until it returns early or waits
\* for its child.
Invoke(c, cmd, request, launch) ==
    /\ calls[c].pc = "idle"
    /\ calls' = [calls EXCEPT ![c] =
           Started(cmd, request,
               call_python_backend_start(OperationName(cmd), request, cwd, launch))]
    /\ UNCHANGED <<BUNDLED_KEY, envVar, cwd, statusLog>>

gemini_generate(c, requests, launches) ==
    \E request \in requests, launch \in launches :
        /\ request.type = "GeminiGenerateRequest"
        /\ Invoke(c, "gemini_generate", request, launch)

gemini_edit(c, requests, launches) ==
    \E request \in requests, launch \in launches :
        /\ request.type = "GeminiEditRequest"
        /\ Invoke(c, "gemini_edit", request, launch)

gemini_process_image(c, requests, launches) ==
    \E request \in requests, launch \in launches :
        /\ request.type = "GeminiProcessRequest"
        /\ Invoke(c, "gemini_process_image", request, launch)

\* The child of call c exits, having written its stdout and stderr.
ChildExit(c, outputs) ==
    /\ calls[c].pc = "waiting"
    /\ \E out \in outputs :
          calls' = [calls EXCEPT ![c].pc = "exited", ![c].output = Some(out)]
    /\ UNCHANGED <<BUNDLED_KEY, envVar, cwd, statusLog>>

\* a variant in which the calls share one capture buffer: a call reads the
\* output of the first call whose child has exited
CapturedOutput_shared(c) ==
    calls[CHOOSE d \in DOMAIN calls :
            /\ calls[d].pc = "exited"
            /\ \A e \in DOMAIN calls : calls[e].pc = "exited" => d <= e].output.val

\* the Output that .output() hands back to call c
CapturedOutput(c) == calls[c].output.val

\* the slot of a call that returns with what call_python_backend came to
Returned(call, fin) ==
    [call EXCEPT !.pc = "returned",
                 !.result = Some(map_err_label(call.cmd, fin.res)),
                 !.stage = fin.stage,
                 !.parsed = fin.parsed,
                 !.returns = call.returns + 1]

\* The caller has its answer; nothing of the call is kept.
Collect(c) ==
    /\ calls[c].pc = "returned"
    /\ calls' = [calls EXCEPT ![c] = IdleCall]
    /\ UNCHANGED <<BUNDLED_KEY, envVar, cwd, statusLog>>

----------------------------------------------------------------------------
(* The inputs of the model. *)

\* io::Error's Display
IO_NOT_FOUND == Lit("No such file or directory (os error 2)")

APP_DIR == <<Lit("home"), Lit("app"), Lit("frontend")>>
CwdValues == {Err(IO_NOT_FOUND), Ok(<<>>), Ok(APP_DIR)}

\* What the operating system does with a launch: the child runs; or the
\* launch fails, with or without a child process having existed (a fork
\* whose exec failed).
Launched == [err |-> None, children |-> 1]
LaunchOutcomes ==
    {Launched,
     [err |-> Some(IO_NOT_FOUND), children |-> 0],
     [err |-> Some(IO_NOT_FOUND), children |-> 1]}

GenerateRequest(prompt, style, width, height) ==
    [type |-> "GeminiGenerateRequest", prompt |-> prompt, style |-> style,
     width |-> width, height |-> height]
EditRequest(image, prompt) ==
    [type |-> "GeminiEditRequest", image_base64 |-> image, prompt |-> prompt]
ProcessRequest(image, style, custom, remove, threshold, padding) ==
    [type |-> "GeminiProcessRequest", image_base64 |-> image, style |-> style,
     custom_prompt |-> custom, remove_background |-> remove,
     threshold |-> threshold, padding |-> padding]

FewRequests ==
    {GenerateRequest(Lit("a red circle"), None, None, None),
     EditRequest(Lit("aGk="), Lit("make it blue")),
     ProcessRequest(Lit("aGk="), None, None, None, None, None)}
Requests ==
    FewRequests \cup
    {GenerateRequest(Lit("say \"hi\""), Some(Lit("ink")), Some(512), Some(64)),
     ProcessRequest(Lit("aGk="), Some(Lit("line")), Some(Lit("a\\b")), Some(TRUE),
                    Some(128), Some(0))}

Exited(code) == [code |-> Some(code)]
Signaled == [code |-> None]
Output(status, stdout, stderr) ==
    [status |-> status, stdout |-> stdout, stderr |-> stderr]

VALID_DOC == Lit("{\"image_base64\":\"aGk=\",\"prompt_used\":\"a red circle\"}")
TRACEBACK == Cat(<<Lit("Traceback (most recent call last):"), <<LF>>,
                   Lit("ValueError: boom"), <<LF>>>>)

FewOutputs ==
    {Output(Exited(0), VALID_DOC, <<>>),
     Output(Exited(0), Lit("x"), <<>>),
     Output(Exited(1), <<>>, TRACEBACK)}

\* bytes of stdout that are not the expected document
BadStdout ==
    {<<>>, Lit("{}"), Lit("\"abc\""), Lit("null"), Lit("17"),
     Lit("{\"image_base64\":\"aGk=\"}"),
     Lit("{\"image_base64\":7,\"prompt_used\":\"p\"}"),
     VALID_DOC \o Lit(" done"),
     Cat(<<Lit("loading"), <<LF>>, VALID_DOC>>),
     <<255>>,
     Cat(<<<<QUOTE, 255>>, Lit("a"), <<QUOTE>>>>)}

\* bytes of stdout that hold the expected document
GoodStdout ==
    {Cat(<<Lit(" {\"prompt_used\": \"p\\n\" , \"extra\": true, \"image_base64\":\""),
           <<195, 169>>, Lit("\"}"), <<LF>>>>)}

\* bytes of stderr: well-formed UTF-8 and not
StderrValues ==
    {<<>>, Lit("boom"), <<195, 169>>, <<255, 97>>, <<97, 226, 130>>,
     PARSE_ERROR \o Lit("expected value at line 1 column 1"),
     EXECUTE_ERROR \o IO_NOT_FOUND}

Outputs ==
    FewOutputs
    \cup {Output(Exited(0), b, <<>>) : b \in BadStdout \cup GoodStdout}
    \cup {Output(Exited(1), <<>>, e) : e \in StderrValues}
    \cup {Output(Exited(0), VALID_DOC, Lit("warning: slow")),
          Output(Exited(2), VALID_DOC, Lit("boom")),
          Output(Signaled, VALID_DOC, <<>>),
          Output(Exited(0), <<255>>, <<255>>)}

\* what call_python_backend makes of each output a child can hand back,
\* tabulated once
Finished == [out \in Outputs |-> call_python_backend_finish(out)]

\* Call c resumes after .output() and returns to its caller.
Return(c) ==
    /\ calls[c].pc = "exited"
    /\ calls' = [calls EXCEPT ![c] = Returned(calls[c], Finished[CapturedOutput(c)])]
    /\ UNCHANGED <<BUNDLED_KEY, envVar, cwd, statusLog>>

----------------------------------------------------------------------------
(* Spec: one facade call at a time, every input of the model. *)

Init ==
    /\ BUNDLED_KEY = None
    /\ envVar = Err("NotPresent")
    /\ cwd \in CwdValues
    /\ statusLog = <<>>
    /\ calls = [c \in {1} |-> IdleCall]

Next ==
    \/ \E c \in DOMAIN calls : gemini_generate(c, Requests, LaunchOutcomes)
    \/ \E c \in DOMAIN calls : gemini_edit(c, Requests, LaunchOutcomes)
    \/ \E c \in DOMAIN calls : gemini_process_image(c, Requests, LaunchOutcomes)
    \/ \E c \in DOMAIN calls : ChildExit(c, Outputs)
    \/ \E c \in DOMAIN calls : Return(c)
    \/ \E c \in DOMAIN calls : Collect(c)

Spec == Init /\ [][Next]_vars

(* SpecCred: the credential tiers and the status query, beside one call. *)

InitCred ==
    /\ BUNDLED_KEY \in BundledValues
    /\ envVar \in EnvValues
    /\ cwd = Ok(APP_DIR)
    /\ statusLog = <<>>
    /\ calls = [c \in {1} |-> IdleCall]

NextCred ==
    \/ SetEnv
    \/ gemini_check_status
    \/ \E c \in DOMAIN calls : gemini_generate(c, FewRequests, {Launched})
    \/ \E c \in DOMAIN calls : gemini_edit(c, FewRequests, {Launched})
    \/ \E c \in DOMAIN calls : gemini_process_image(c, FewRequests, {Launched})
    \/ \E c \in DOMAIN calls : ChildExit(c, FewOutputs)
    \/ \E c \in DOMAIN calls : Return(c)
    \/ \E c \in DOMAIN calls : Collect(c)

SpecCred == InitCred /\ [][NextCred]_vars

(* SpecConc: MaxCalls calls in flight together.  A call whose child has    *)
(* exited is a task blocked in .output() that the runtime resumes.         *)

InitConc ==
    /\ BUNDLED_KEY = None
    /\ envVar = Err("NotPresent")
    /\ cwd = Ok(APP_DIR)
    /\ statusLog = <<>>
    /\ calls = [c \in 1..MaxCalls |-> IdleCall]

NextConc ==
    \/ \E c \in DOMAIN calls : gemini_generate(c, FewRequests, LaunchOutcomes)
    \/ \E c \in DOMAIN calls : gemini_edit(c, FewRequests, LaunchOutcomes)
    \/ \E c \in DOMAIN calls : gemini_process_image(c, FewRequests, LaunchOutcomes)
    \/ \E c \in DOMAIN calls : ChildExit(c, FewOutputs)
    \/ \E c \in DOMAIN calls : Return(c)
    \/ \E c \in DOMAIN calls : Collect(c)

SpecConc ==
    /\ InitConc
    /\ [][NextConc]_vars
    /\ \A c \in 1..MaxCalls : WF_vars(Return(c))

----------------------------------------------------------------------------
(* The claims. *)

Slots == DOMAIN calls
Text(c) == calls[c].result.val.err
ReturnedErr(c) ==
    calls[c].pc = "returned" /\ calls[c].result.val.tag = "Err"
\* call c returned after its child exited
ReturnedFromChild(c) == calls[c].pc = "returned" /\ calls[c].output.tag = "Some"
StderrOf(c) == calls[c].output.val.stderr
StdoutOf(c) == calls[c].output.val.stdout
\* the text of an error after its first n characters
After(text, n) == SubSeq(text, n + 1, Len(text))

\* a tier holds a credential that counts: non-empty and not the placeholder
BundledValid ==
    BUNDLED_KEY.tag = "Some" /\ BUNDLED_KEY.val \notin {<<>>, Lit("your_api_key_here")}
EnvValid(env) ==
    env.tag = "Ok" /\ env.val \notin {<<>>, Lit("your_api_key_here")}
\* a tier is unset, empty or the placeholder
BundledAbsent ==
    BUNDLED_KEY.tag = "None" \/ BUNDLED_KEY.val \in {<<>>, Lit("your_api_key_here")}
EnvAbsent(env) ==
    env = Err("NotPresent")
    \/ (env.tag = "Ok" /\ env.val \in {<<>>, Lit("your_api_key_here")})

\* C1: when the build-embedded credential is present, non-empty and not the
\* placeholder, get_api_key returns it whatever the runtime variable holds;
\* the runtime value is returned only when the embedded one is absent, empty
\* or the placeholder.
C1_Precedence ==
    \A i \in 1..Len(statusLog) :
        LET e == statusLog[i]
        IN /\ BundledValid => e.key = Some(BUNDLED_KEY.val)
           /\ (e.key.tag = "Some" /\ ~BundledValid) =>
                  (e.env.tag = "Ok" /\ e.key = Some(e.env.val))
           /\ (e.key.tag = "Some" /\ e.env.tag = "Ok" /\ e.key.val = e.env.val
                  /\ Some(e.env.val) # BUNDLED_KEY) => BundledAbsent

\* C1 witness: a status query ran with a valid embedded key and a different
\* valid key in the environment, and resolved to the embedded one.
C1_Witness ==
    \E i \in 1..Len(statusLog) :
        /\ BundledValid
        /\ EnvValid(statusLog[i].env)
        /\ statusLog[i].env.val # BUNDLED_KEY.val
        /\ statusLog[i].key = Some(BUNDLED_KEY.val)

\* C2: when both tiers are unset, empty or the placeholder, gemini_check_status
\* reports configured = false with the "not configured" message; configured =
\* true is reported only if some tier holds a non-empty, non-placeholder value.
C2_PlaceholderRejected ==
    \A i \in 1..Len(statusLog) :
        LET e == statusLog[i]
        IN /\ (BundledAbsent /\ EnvAbsent(e.env)) =>
                  e.res = Ok([configured |-> FALSE,
                              message |-> Lit("Gemini API key not configured. Configure in the app settings.")])
           /\ (e.res.tag = "Ok" /\ e.res.val.configured) =>
                  (BundledValid \/ EnvValid(e.env))

\* C2 witness: a status query ran with an empty embedded key and the
\* placeholder in the environment, and reported not configured.
C2_Witness ==
    \E i \in 1..Len(statusLog) :
        /\ BUNDLED_KEY = Some(<<>>)
        /\ statusLog[i].env = Ok(Lit("your_api_key_here"))
        /\ ~statusLog[i].res.val.configured

\* the bytes are well-formed UTF-8: decoding and encoding gives them back
WellFormed(b) == as_bytes(from_utf8_lossy(b)) = b

\* the label of a command as the source spells it
LabelOf(cmd) ==
    CASE cmd = "gemini_generate" -> Lit("Failed to generate image: ")
      [] cmd = "gemini_edit" -> Lit("Failed to edit image: ")
      [] cmd = "gemini_process_image" -> Lit("Failed to process image: ")
\* the error of a returned call without its command's label
Cause(c) == After(Text(c), Len(LabelOf(calls[c].cmd)))

\* C3 as claimed: whenever the worker exits with a non-zero status the call
\* fails, stdout is not parsed, and the error text holds the exact bytes of
\* the worker's stderr, whatever they are.
C3_StderrVerbatim ==
    \A c \in Slots :
        (ReturnedFromChild(c) /\ calls[c].output.val.status # [code |-> Some(0)]) =>
            /\ calls[c].result.val.tag = "Err"
            /\ ~calls[c].parsed
            /\ Contains(as_bytes(Text(c)), StderrOf(c))

\* C3 as amended: whenever the worker exits with a non-zero status the call
\* fails, stdout is not parsed, and the error text is the command's label,
\* "Python backend error: " and the lossy UTF-8 decoding of stderr: the exact
\* stderr when it is well-formed UTF-8, and otherwise stderr with each
\* ill-formed sequence replaced by U+FFFD.
C3_StderrLossy ==
    \A c \in Slots :
        (ReturnedFromChild(c) /\ calls[c].output.val.status # [code |-> Some(0)]) =>
            /\ calls[c].result.val.tag = "Err"
            /\ ~calls[c].parsed
            /\ StartsWith(Cause(c), Lit("Python backend error: "))
            /\ LET payload == After(Cause(c), Len(Lit("Python backend error: ")))
               IN /\ payload = from_utf8_lossy(StderrOf(c))
                  /\ WellFormed(StderrOf(c)) => as_bytes(payload) = StderrOf(c)
                  /\ ~WellFormed(StderrOf(c)) =>
                        (\E i \in 1..Len(payload) : payload[i] = REPLACEMENT)

\* C3 witness: a call returned after its worker exited with status 1 and
\* stderr bytes that are not UTF-8.
C3_Witness ==
    \E c \in Slots :
        /\ ReturnedFromChild(c)
        /\ calls[c].output.val.status = [code |-> Some(1)]
        /\ StderrOf(c) = <<255, 97>>
        /\ calls[c].stage = "worker"

\* the failure kinds whose prefix an error cause carries
KindsOf(text) ==
    {k \in {"launch", "worker", "parse"} :
        StartsWith(text,
            CASE k = "launch" -> Lit("Failed to execute Python: ")
              [] k = "worker" -> Lit("Python backend error: ")
              [] k = "parse" -> Lit("Failed to parse response: "))}

\* C4: the error of a call tells its failure kind apart: a launch error, a
\* worker error (non-zero exit) and a parse error (zero exit, stdout not the
\* expected result) each carry their own prefix and no other kind's, whatever
\* stdout and stderr hold.
C4_KindsDistinct ==
    \A c \in Slots :
        (ReturnedErr(c) /\ calls[c].stage \in {"launch", "worker", "parse"}) =>
            /\ KindsOf(Cause(c)) = {calls[c].stage}
            /\ calls[c].stage = "launch" <=> calls[c].output.tag = "None"
            /\ calls[c].stage = "worker" <=>
                  (calls[c].output.tag = "Some"
                   /\ calls[c].output.val.status # [code |-> Some(0)])

\* C4 witness: a worker error whose stderr is the text of a parse error.
C4_Witness ==
    \E c \in Slots :
        /\ ReturnedErr(c)
        /\ calls[c].stage = "worker"
        /\ StartsWith(from_utf8_lossy(StderrOf(c)), Lit("Failed to parse response: "))

\* C5 as claimed: when the worker exits with success and stdout cannot be
\* deserialized, the error carries the parse failure reason and the raw
\* stdout text.
C5_RawStdoutCarried ==
    \A c \in Slots :
        (ReturnedFromChild(c) /\ calls[c].stage = "parse") =>
            /\ StartsWith(Cause(c), Lit("Failed to parse response: "))
            /\ Contains(After(Cause(c), Len(Lit("Failed to parse response: "))),
                        from_utf8_lossy(StdoutOf(c)))

\* C5 as amended: when the worker exits with success and stdout cannot be
\* deserialized, the error is the command's label, "Failed to parse
\* response: " and serde_json's reason, which ends with the line and column of
\* the failure; the raw stdout text is not attached.
C5_ReasonOnly ==
    \A c \in Slots :
        (ReturnedFromChild(c) /\ calls[c].stage = "parse") =>
            /\ calls[c].output.val.status = [code |-> Some(0)]
            /\ Cause(c) = Lit("Failed to parse response: ")
                            \o from_str(from_utf8_lossy(StdoutOf(c))).err
            /\ LET size == Len(as_bytes(from_utf8_lossy(StdoutOf(c))))
               IN \E line \in 1..(size + 1), column \in 0..size :
                     EndsWith(Text(c), Cat(<<Lit(" at line "), Dec(line),
                                             Lit(" column "), Dec(column)>>))

\* C5 witness: a call returned a parse error for the stdout "{}".
C5_Witness ==
    \E c \in Slots :
        /\ ReturnedFromChild(c)
        /\ calls[c].stage = "parse"
        /\ StdoutOf(c) = Lit("{}")

\* C6 as claimed: every call that has returned spawned exactly one child
\* process, on every path, the early error returns included.
C6_ExactlyOneChild ==
    \A c \in Slots : calls[c].pc = "returned" => calls[c].spawned = 1

\* C6 as amended: a call never spawns more than one child process; it has
\* spawned exactly one once the launch succeeded, whatever the exit status
\* and the output (nothing is retried, no process is kept for a later call);
\* it has spawned none when it ends in a path-resolution error.
C6_AtMostOneChild ==
    \A c \in Slots :
        /\ calls[c].spawned <= 1
        /\ (calls[c].pc \in {"waiting", "exited"}
              \/ calls[c].stage \in {"worker", "parse", "ok"}) =>
                 (calls[c].spawned = 1 /\ calls[c].child.tag = "Some")
        /\ calls[c].stage \in {"serialize", "cwd", "parent"} =>
                 (calls[c].spawned = 0 /\ calls[c].child.tag = "None")
        /\ calls[c].pc = "idle" =>
                 (calls[c].spawned = 0 /\ calls[c].child.tag = "None")

\* C6 witness: a call returned a path-resolution error without a child.
C6_Witness ==
    \E c \in Slots :
        /\ calls[c].pc = "returned"
        /\ calls[c].stage = "parent"
        /\ calls[c].spawned = 0

\* the newest entry of the status log
Newest(log) == log[Len(log)]

\* C7: gemini_check_status cannot fail and has no side effects: it returns
\* a success value, spawns no child process and leaves the credential sources
\* and every call untouched; with the credential neither embedded nor in the
\* environment it returns configured = false with a message ending in
\* "not configured. Configure in the app settings.".
C7_StatusPure ==
    [][statusLog' # statusLog =>
          /\ UNCHANGED <<BUNDLED_KEY, envVar, cwd, calls>>
          /\ Newest(statusLog').res.tag = "Ok"
          /\ Newest(statusLog').res.val.configured \in BOOLEAN
          /\ (BUNDLED_KEY = None /\ envVar = Err("NotPresent")) =>
                /\ Newest(statusLog').res.val.configured = FALSE
                /\ EndsWith(Newest(statusLog').res.val.message,
                            Lit("not configured. Configure in the app settings."))
    ]_vars

\* C7 witness: the status was queried with no credential anywhere while a
\* worker of a facade call was running, and that call still waits.
C7_Witness ==
    /\ statusLog # <<>>
    /\ BUNDLED_KEY = None
    /\ Newest(statusLog).env = Err("NotPresent")
    /\ Newest(statusLog).res = Ok([configured |-> FALSE,
           message |-> Lit("Gemini API key not configured. Configure in the app settings.")])
    /\ \E c \in Slots : calls[c].pc = "waiting" /\ calls[c].spawned = 1

\* C8: each command passes its own operation name as the argument after the
\* dispatch module "core.gemini.cli", and every error it returns, at whatever
\* stage, starts with its own label and with no other command's.
C8_OwnNameAndLabel ==
    \A c \in Slots :
        /\ calls[c].child.tag = "Some" =>
              /\ calls[c].child.val.args[1] = Lit("-m")
              /\ calls[c].child.val.args[2] = Lit("core.gemini.cli")
              /\ calls[c].child.val.args[3] =
                    (CASE calls[c].cmd = "gemini_generate" -> Lit("generate")
                       [] calls[c].cmd = "gemini_edit" -> Lit("edit")
                       [] calls[c].cmd = "gemini_process_image" -> Lit("process"))
              /\ Len(calls[c].child.val.args) = 4
        /\ ReturnedErr(c) =>
              \A cmd \in {"gemini_generate", "gemini_edit", "gemini_process_image"} :
                  StartsWith(Text(c), LabelOf(cmd)) <=> cmd = calls[c].cmd
        /\ calls[c].pc = "returned" =>
              (calls[c].result.val.tag = "Err" <=> calls[c].stage # "ok")

\* C8 witness: gemini_edit ran its worker with "edit" and returned a parse
\* error under its own label.
C8_Witness ==
    \E c \in Slots :
        /\ ReturnedErr(c)
        /\ calls[c].cmd = "gemini_edit"
        /\ calls[c].stage = "parse"
        /\ calls[c].child.val.args[3] = Lit("edit")
        /\ StartsWith(Text(c), Lit("Failed to edit image: Failed to parse response: "))

\* C9: the credential is resolved afresh by every status query: each result
\* reflects the runtime variable as it is at that call (when no valid key is
\* embedded), so a change is seen by the very next query; and a query changes
\* nothing a later query reads.
C9_FreshPerQuery ==
    [][statusLog' # statusLog =>
          /\ Newest(statusLog').env = envVar
          /\ Newest(statusLog').res.val.configured = (BundledValid \/ EnvValid(envVar))
          /\ ~BundledValid =>
                Newest(statusLog').key = (IF EnvValid(envVar) THEN Some(envVar.val) ELSE None)
          /\ UNCHANGED <<BUNDLED_KEY, envVar>>
    ]_vars

\* C9 witness: with no valid embedded key, two queries in a row gave
\* different answers because the runtime variable changed between them.
C9_Witness ==
    /\ ~BundledValid
    /\ Len(statusLog) >= 2
    /\ statusLog[Len(statusLog) - 1].res.val.configured
    /\ ~Newest(statusLog).res.val.configured
    /\ EnvValid(statusLog[Len(statusLog) - 1].env)
    /\ ~EnvValid(Newest(statusLog).env)

\* a returned call's result, from its own command and its own child's output
OwnResult(c) ==
    LET out == calls[c].output.val
        stdout == from_utf8_lossy(out.stdout)
    IN IF out.status # [code |-> Some(0)]
       THEN Err(Cat(<<LabelOf(calls[c].cmd), Lit("Python backend error: "),
                      from_utf8_lossy(out.stderr)>>))
       ELSE IF from_str(stdout).tag = "Ok" THEN from_str(stdout)
       ELSE Err(Cat(<<LabelOf(calls[c].cmd), Lit("Failed to parse response: "),
                      from_str(stdout).err>>))

====
